---- MODULE Spec2Model ----
(***************************************************************************)
(* Model of development/nautobot_config.py: the settings module that       *)
(* validates six required environment variables and then assigns the       *)
(* Nautobot settings from os.environ, sys.argv and the settings inherited  *)
(* from nautobot.core.settings.                                            *)
(*                                                                         *)
(* A "load" is one execution of the file, top to bottom.  The module       *)
(* namespace is the variable settings (a function whose DOMAIN is the set  *)
(* of names this file has assigned), the inherited MIDDLEWARE list is a    *)
(* list object shared by every load of the same process.                   *)
(***************************************************************************)
EXTENDS Integers, Sequences, FiniteSets, TLC

VARIABLES environ, argv, MIDDLEWARE, settings, outcome, errorKey, loads

vars == <<environ, argv, MIDDLEWARE, settings, outcome, errorKey, loads>>

(***************************************************************************)
(* Bounds of the model.                                                    *)
(***************************************************************************)
\* Loads (executions of the file) performed in one process.
MaxLoads == 3

(***************************************************************************)
(* Python values.  Every value carries its Python type, so that "false"    *)
(* (a str) and False (a bool) are different values.                        *)
(***************************************************************************)
StrV(s) == [type |-> "str", val |-> s]
IntV(n) == [type |-> "int", val |-> n]
BoolV(b) == [type |-> "bool", val |-> b]
NoneV == [type |-> "NoneType"]

\* Python truth value of a str, int, bool or None.
Truthy(v) ==
    CASE v.type = "bool" -> v.val
      [] v.type = "int" -> v.val # 0
      [] v.type = "str" -> IF "val" \in DOMAIN v THEN v.val # "" ELSE TRUE
      [] v.type = "NoneType" -> FALSE

\* Result of an expression that may raise.
Ok(v) == [exc |-> "none", val |-> v]
Raise(e) == [exc |-> e]

(***************************************************************************)
(* Characters of the string values the model draws.  TLC strings are       *)
(* atomic, so the spelling of each value that is parsed is given here and  *)
(* the parsers below work on the characters.                               *)
(***************************************************************************)
Chars(s) ==
    CASE s = "" -> <<>>
      [] s = "abc" -> <<"a", "b", "c">>
      [] s = "60" -> <<"6", "0">>
      [] s = "0" -> <<"0">>
      [] s = "1" -> <<"1">>
      [] s = "-5" -> <<"-", "5">>
      [] s = " 7" -> <<" ", "7">>
      [] s = "1_0" -> <<"1", "_", "0">>
      [] s = "6380" -> <<"6", "3", "8", "0">>
      [] s = "true" -> <<"t", "r", "u", "e">>
      [] s = "True" -> <<"T", "r", "u", "e">>
      [] s = "false" -> <<"f", "a", "l", "s", "e">>
      [] s = "False" -> <<"F", "a", "l", "s", "e">>
      [] s = "maybe" -> <<"m", "a", "y", "b", "e">>
      [] s = "on" -> <<"o", "n">>
      [] s = "No" -> <<"N", "o">>
      [] s = "y" -> <<"y">>
      [] s = "yes" -> <<"y", "e", "s">>
      [] s = "t" -> <<"t">>
      [] s = "n" -> <<"n">>
      [] s = "no" -> <<"n", "o">>
      [] s = "f" -> <<"f">>
      [] s = "off" -> <<"o", "f", "f">>
      [] s = "nautobot" -> <<"n", "a", "u", "t", "o", "b", "o", "t">>
      [] s = "a.io" -> <<"a", ".", "i", "o">>
      [] s = "b.io" -> <<"b", ".", "i", "o">>
      [] s = "a.io b.io" -> <<"a", ".", "i", "o", " ", "b", ".", "i", "o">>
      [] s = " nautobot" -> <<" ", "n", "a", "u", "t", "o", "b", "o", "t">>

\* The strings whose spelling Chars gives.
Spellings ==
    {"", "abc", "60", "0", "1", "-5", " 7", "1_0", "6380", "true", "True", "false",
     "False", "maybe", "on", "No", "y", "yes", "t", "n", "no", "f", "off",
     "nautobot", "a.io", "b.io", "a.io b.io", " nautobot"}

\* The string spelled by the characters cs.
Text(cs) == CHOOSE s \in Spellings : Chars(s) = cs

UpperLetters ==
    <<"A", "B", "C", "D", "E", "F", "G", "H", "I", "J", "K", "L", "M",
      "N", "O", "P", "Q", "R", "S", "T", "U", "V", "W", "X", "Y", "Z">>
LowerLetters ==
    <<"a", "b", "c", "d", "e", "f", "g", "h", "i", "j", "k", "l", "m",
      "n", "o", "p", "q", "r", "s", "t", "u", "v", "w", "x", "y", "z">>

\* str.lower(), character by character.
LowerChar(c) ==
    IF \E i \in 1..Len(UpperLetters) : UpperLetters[i] = c
    THEN LowerLetters[CHOOSE i \in 1..Len(UpperLetters) : UpperLetters[i] = c]
    ELSE c
Lower(cs) == [i \in 1..Len(cs) |-> LowerChar(cs[i])]

Digits == <<"0", "1", "2", "3", "4", "5", "6", "7", "8", "9">>
IsDigit(c) == \E i \in 1..Len(Digits) : Digits[i] = c
DigitVal(c) == (CHOOSE i \in 1..Len(Digits) : Digits[i] = c) - 1

\* str.strip() of whitespace, as int() applies it to its argument.
RECURSIVE LStrip(_)
LStrip(cs) == IF cs # <<>> /\ Head(cs) = " " THEN LStrip(Tail(cs)) ELSE cs
RECURSIVE RStrip(_)
RStrip(cs) ==
    IF cs # <<>> /\ cs[Len(cs)] = " " THEN RStrip(SubSeq(cs, 1, Len(cs) - 1)) ELSE cs
Strip(cs) == RStrip(LStrip(cs))

\* A decimal literal accepted by int(): digits, single underscores between digits.
IsDecimal(cs) ==
    /\ cs # <<>>
    /\ IsDigit(cs[1])
    /\ IsDigit(cs[Len(cs)])
    /\ \A i \in 1..Len(cs) : IsDigit(cs[i]) \/ cs[i] = "_"
    /\ \A i \in 1..(Len(cs) - 1) : ~(cs[i] = "_" /\ cs[i + 1] = "_")

RECURSIVE DecimalValue(_, _)
DecimalValue(cs, acc) ==
    IF cs = <<>> THEN acc
    ELSE IF Head(cs) = "_" THEN DecimalValue(Tail(cs), acc)
    ELSE DecimalValue(Tail(cs), 10 * acc + DigitVal(Head(cs)))

\* An optional sign followed by a decimal literal, or ValueError.
SignedLiteral(sign, body) ==
    IF ~IsDecimal(body) THEN Raise("ValueError")
    ELSE Ok(IntV((IF sign = "-" THEN 0 - 1 ELSE 1) * DecimalValue(body, 0)))

IntLiteral(cs) ==
    IF cs # <<>> /\ Head(cs) \in {"+", "-"}
    THEN SignedLiteral(Head(cs), Tail(cs))
    ELSE SignedLiteral("+", cs)

\* A variant of int that falls back to 0 on a str that is no literal.
int_lenient(v) ==
    IF v.type = "int" THEN Ok(v)
    ELSE IF IntLiteral(Strip(Chars(v.val))).exc = "none" THEN IntLiteral(Strip(Chars(v.val)))
    ELSE Ok(IntV(0))

\* The builtin int(x) for an int or a str: ValueError on a str that is no literal.
int(v) == IF v.type = "int" THEN Ok(v) ELSE IntLiteral(Strip(Chars(v.val)))

\* distutils.util.strtobool: 1 / 0 for the accepted spellings, else ValueError.
\* ("y", "yes", "t", "true", "on", "1") and ("n", "no", "f", "false", "off", "0")
TrueWords ==
    {<<"y">>, <<"y", "e", "s">>, <<"t">>, <<"t", "r", "u", "e">>, <<"o", "n">>, <<"1">>}
FalseWords ==
    {<<"n">>, <<"n", "o">>, <<"f">>, <<"f", "a", "l", "s", "e">>, <<"o", "f", "f">>, <<"0">>}
WordValue(val) ==
    IF val \in TrueWords THEN Ok(IntV(1))
    ELSE IF val \in FalseWords THEN Ok(IntV(0))
    ELSE Raise("ValueError")
strtobool(cs) == WordValue(Lower(cs))

\* nautobot.core.settings_funcs.is_truthy: a bool is returned as it is, anything
\* else goes through strtobool(str(arg)).
\* bool(r) of a result that did not raise
BoolOf(r) == IF r.exc # "none" THEN r ELSE Ok(BoolV(r.val.val # 0))
\* A variant of is_truthy that takes the empty string for False.
is_truthy_empty_false(arg) ==
    IF arg.type = "bool" THEN Ok(arg)
    ELSE IF arg.val = "" THEN Ok(BoolV(FALSE))
    ELSE BoolOf(strtobool(Chars(arg.val)))

is_truthy(arg) == IF arg.type = "bool" THEN Ok(arg) ELSE BoolOf(strtobool(Chars(arg.val)))

\* str.split(" "): the pieces between single spaces (empty pieces kept).
RECURSIVE SplitSpace(_, _, _)
SplitSpace(cs, cur, acc) ==
    IF cs = <<>> THEN Append(acc, Text(cur))
    ELSE IF Head(cs) = " " THEN SplitSpace(Tail(cs), <<>>, Append(acc, Text(cur)))
    ELSE SplitSpace(Tail(cs), Append(cur, Head(cs)), acc)

(***************************************************************************)
(* os.environ is a function from the names that are set to their values.   *)
(***************************************************************************)
\* os.getenv(key, default) / os.environ.get(key, default)
getenv(env, key, default) == IF key \in DOMAIN env THEN StrV(env[key]) ELSE default


\* f"{redis_username}:{redis_password}@" when either is non-empty, else "".
RedisCreds(redis_username, redis_password) ==
    IF Truthy(redis_username) \/ Truthy(redis_password)
    THEN <<redis_username.val, ":", redis_password.val, "@">>
    ELSE <<>>

\* f"{redis_scheme}://{redis_creds}{redis_host}:{redis_port}/{redis_database}",
\* kept as its components.
RedisUrl(ssl, redis_host, redis_port, redis_creds, redis_database) ==
    IF ssl.exc # "none" THEN ssl
    ELSE IF redis_port.exc # "none" THEN redis_port
    ELSE Ok([type |-> "str",
             url |-> [scheme |-> IF ssl.val.val THEN "rediss" ELSE "redis",
                      creds |-> redis_creds,
                      host |-> redis_host.val,
                      port |-> redis_port.val.val,
                      database |-> redis_database]])

\* nautobot.core.settings_funcs.parse_redis_connection(redis_database)
parse_redis_connection(env, redis_database) ==
    RedisUrl(is_truthy(getenv(env, "NAUTOBOT_REDIS_SSL", BoolV(FALSE))),
             getenv(env, "NAUTOBOT_REDIS_HOST", StrV("localhost")),
             int(getenv(env, "NAUTOBOT_REDIS_PORT", IntV(6379))),
             RedisCreds(getenv(env, "NAUTOBOT_REDIS_USERNAME", StrV("")),
                        getenv(env, "NAUTOBOT_REDIS_PASSWORD", StrV(""))),
             redis_database)

(***************************************************************************)
(* The right-hand sides of the file's assignments.                         *)
(***************************************************************************)
\* a literal
Lit(v) == [op |-> "literal", value |-> v]
\* os.getenv(var, default) / os.environ.get(var, default)
Getenv(var, default) == [op |-> "getenv", var |-> var, default |-> default]
\* int(os.getenv(var, default))
IntOf(var, default) == [op |-> "int", var |-> var, default |-> default]
\* is_truthy(os.getenv(var, default))
TruthyOf(var, default) == [op |-> "is_truthy", var |-> var, default |-> default]
\* parse_redis_connection(redis_database=db)
Redis(db) == [op |-> "redis", database |-> db]
\* os.getenv(var, parse_redis_connection(redis_database=db))
GetenvRedis(var, db) == [op |-> "getenv_redis", var |-> var, database |-> db]
\* os.getenv(var, "").split(" ")
SplitOf(var, default) == [op |-> "split", var |-> var, default |-> default]
\* {key: expression, ...}
Dict(fields) == [op |-> "dict", fields |-> fields]
\* a name assigned earlier in the file
Name(n) == [op |-> "name", name |-> n]

\* os.getenv(var, d) where the default d is the result of a call that may raise.
GetenvOr(env, var, d) == IF d.exc # "none" THEN d ELSE Ok(getenv(env, var, d.val))

RECURSIVE Eval(_, _, _)
RECURSIVE EvalFields(_, _, _, _, _)

\* The value of expression e under environment env and namespace ns, or the
\* exception it raises.  Arguments are evaluated before the call, so the default
\* parse_redis_connection(...) of os.getenv is computed even when the variable is set.
Eval(e, env, ns) ==
    CASE e.op = "literal" -> Ok(e.value)
      [] e.op = "getenv" -> Ok(getenv(env, e.var, e.default))
      [] e.op = "int" -> int(getenv(env, e.var, e.default))
      [] e.op = "is_truthy" -> is_truthy(getenv(env, e.var, e.default))
      [] e.op \in {"redis", "getenv_redis"} ->
            IF e.op = "redis" THEN parse_redis_connection(env, e.database)
            ELSE GetenvOr(env, e.var, parse_redis_connection(env, e.database))
      [] e.op = "split" ->
            Ok(SplitSpace(Chars(getenv(env, e.var, e.default).val), <<>>, <<>>))
      [] e.op = "name" -> Ok(ns[e.name])
      [] e.op = "dict" -> EvalFields(e.fields, 1, <<>>, env, ns)

\* The dict display continues after its i-th value r.
FieldDone(fields, i, acc, env, ns, r) ==
    IF r.exc # "none" THEN r
    ELSE EvalFields(fields, i + 1, (fields[i][1] :> r.val) @@ acc, env, ns)

\* A dict display: the values are evaluated in the order written.
EvalFields(fields, i, acc, env, ns) ==
    IF i > Len(fields) THEN Ok(acc)
    ELSE FieldDone(fields, i, acc, env, ns, Eval(fields[i][2], env, ns))

(***************************************************************************)
(* The file, statement by statement.                                       *)
(***************************************************************************)
\* A variant of RequiredKeys that checks the secret key first.
RequiredKeys_secret_first ==
    <<"NAUTOBOT_SECRET_KEY",
      "NAUTOBOT_ALLOWED_HOSTS",
      "NAUTOBOT_DB_USER",
      "NAUTOBOT_DB_PASSWORD",
      "NAUTOBOT_REDIS_HOST",
      "NAUTOBOT_REDIS_PASSWORD">>

\* The required environment variables, in the order the loop checks them.
RequiredKeys ==
    <<"NAUTOBOT_ALLOWED_HOSTS",
      "NAUTOBOT_DB_USER",
      "NAUTOBOT_DB_PASSWORD",
      "NAUTOBOT_REDIS_HOST",
      "NAUTOBOT_REDIS_PASSWORD",
      "NAUTOBOT_SECRET_KEY">>

\* `not os.environ.get(key)`: the variable is unset or set to the empty string.
Missing(env, key) == ~Truthy(getenv(env, key, NoneV))

\* The loop over the required variables: the key named by the
\* ImproperlyConfigured it raises, or "" when it finishes.
RECURSIVE RequiredLoop(_, _)
RequiredLoop(env, i) ==
    IF i > Len(RequiredKeys) THEN ""
    ELSE IF Missing(env, RequiredKeys[i]) THEN RequiredKeys[i]
    ELSE RequiredLoop(env, i + 1)

\* A variant of TESTING that looks at sys.argv[0].
TESTING_argv0(av) == BoolV(Len(av) > 0 /\ av[1] = "test")

\* TESTING = len(sys.argv) > 1 and sys.argv[1] == "test"  (sys.argv[1] is av[2])
TESTING(av) == BoolV(Len(av) > 1 /\ av[2] = "test")

DATABASES ==
    Dict(<<
      <<"default", Dict(<<
        <<"NAME", Getenv("NAUTOBOT_DB_NAME", StrV("nautobot"))>>,
        <<"USER", Getenv("NAUTOBOT_DB_USER", StrV(""))>>,
        <<"PASSWORD", Getenv("NAUTOBOT_DB_PASSWORD", StrV(""))>>,
        <<"HOST", Getenv("NAUTOBOT_DB_HOST", StrV("localhost"))>>,
        <<"PORT", Getenv("NAUTOBOT_DB_PORT", StrV(""))>>,
        <<"CONN_MAX_AGE", IntOf("NAUTOBOT_DB_TIMEOUT", IntV(300))>>,
        <<"ENGINE", Getenv("NAUTOBOT_DB_ENGINE", StrV("django.db.backends.postgresql"))>>
      >>)>>
    >>)

\* A variant of MysqlOptions that compares the engine with the short name "mysql".
MysqlOptions_short_name(databases) ==
    IF databases["default"]["ENGINE"] = StrV("mysql")
    THEN [databases EXCEPT !["default"] =
             ("OPTIONS" :> ("charset" :> StrV("utf8mb4"))) @@ databases["default"]]
    ELSE databases

\* if DATABASES["default"]["ENGINE"] == "django.db.backends.mysql":
\*     DATABASES["default"]["OPTIONS"] = {"charset": "utf8mb4"}
MysqlOptions(databases) ==
    IF databases["default"]["ENGINE"] = StrV("django.db.backends.mysql")
    THEN [databases EXCEPT !["default"] =
             ("OPTIONS" :> ("charset" :> StrV("utf8mb4"))) @@ databases["default"]]
    ELSE databases

CELERY_QUEUES ==
    Dict(<<
      <<"default", Dict(<< <<"USE_REDIS_CACHE", Lit(StrV("default"))>>,
                           <<"DEFAULT_TIMEOUT", Lit(IntV(3600))>> >>)>>,
      <<"check_releases", Dict(<< <<"USE_REDIS_CACHE", Lit(StrV("default"))>> >>)>>,
      <<"custom_fields", Dict(<< <<"USE_REDIS_CACHE", Lit(StrV("default"))>> >>)>>,
      <<"webhooks", Dict(<< <<"USE_REDIS_CACHE", Lit(StrV("default"))>> >>)>>
    >>)

CACHES ==
    Dict(<<
      <<"default", Dict(<<
        <<"BACKEND", Lit(StrV("django_redis.cache.RedisCache"))>>,
        <<"LOCATION", Redis(0)>>,
        <<"TIMEOUT", Lit(IntV(300))>>,
        <<"OPTIONS", Dict(<<
          <<"CLIENT_CLASS", Lit(StrV("django_redis.client.DefaultClient"))>>,
          <<"PASSWORD", Getenv("NAUTOBOT_REDIS_PASSWORD", StrV(""))>>
        >>)>>
      >>)>>
    >>)

\* A variant of CACHEOPS_REDIS on database 0.
CACHEOPS_REDIS_database_0 == GetenvRedis("NAUTOBOT_CACHEOPS_REDIS", 0)

CACHEOPS_REDIS == GetenvRedis("NAUTOBOT_CACHEOPS_REDIS", 1)

CELERY_BROKER_URL == GetenvRedis("NAUTOBOT_CELERY_BROKER_URL", 0)

CELERY_RESULT_BACKEND == GetenvRedis("NAUTOBOT_CELERY_RESULT_BACKEND", 0)

CACHEOPS_ENABLED == TruthyOf("NAUTOBOT_CACHEOPS_ENABLED", BoolV(TRUE))

ALLOWED_URL_SCHEMES ==
    <<"file", "ftp", "ftps", "http", "https", "irc", "mailto",
      "sftp", "ssh", "tel", "telnet", "tftp", "vnc", "xmpp">>

\* A variant of LOG_LEVEL with the two levels exchanged.
LOG_LEVEL_exchanged(ns) == IF Truthy(ns["DEBUG"]) THEN StrV("INFO") ELSE StrV("DEBUG")

\* LOG_LEVEL = "DEBUG" if DEBUG else "INFO"
LOG_LEVEL(ns) == IF Truthy(ns["DEBUG"]) THEN StrV("DEBUG") ELSE StrV("INFO")

LOGGING ==
    Dict(<<
      <<"version", Lit(IntV(1))>>,
      <<"disable_existing_loggers", Lit(BoolV(FALSE))>>,
      <<"formatters", Dict(<<
        <<"normal", Dict(<<
          <<"format", Lit(StrV("%(asctime)s.%(msecs)03d %(levelname)-7s %(name)s :\n  %(message)s"))>>,
          <<"datefmt", Lit(StrV("%H:%M:%S"))>> >>)>>,
        <<"verbose", Dict(<<
          <<"format", Lit(StrV("%(asctime)s.%(msecs)03d %(levelname)-7s %(name)-20s %(filename)-15s %(funcName)30s() :\n  %(message)s"))>>,
          <<"datefmt", Lit(StrV("%H:%M:%S"))>> >>)>>
      >>)>>,
      <<"handlers", Dict(<<
        <<"normal_console", Dict(<<
          <<"level", Lit(StrV("DEBUG"))>>,
          <<"class", Lit(StrV("logging.StreamHandler"))>>,
          <<"formatter", Lit(StrV("normal"))>> >>)>>
      >>)>>,
      <<"loggers", Dict(<<
        <<"django", Dict(<< <<"handlers", Lit(<<"normal_console">>)>>,
                            <<"level", Lit(StrV("INFO"))>> >>)>>,
        <<"nautobot", Dict(<< <<"handlers", Lit(<<"normal_console">>)>>,
                              <<"level", Name("LOG_LEVEL")>> >>)>>,
        <<"rq.worker", Dict(<< <<"handlers", Lit(<<"normal_console">>)>>,
                               <<"level", Name("LOG_LEVEL")>> >>)>>
      >>)>>
    >>)

PLUGINS_CONFIG ==
    Dict(<<
      <<"nautobot_chatops", Dict(<<
        <<"enable_slack", Getenv("ENABLE_SLACK", BoolV(FALSE))>>,
        <<"slack_api_token", Getenv("SLACK_API_TOKEN", NoneV)>>,
        <<"slack_signing_secret", Getenv("SLACK_SIGNING_SECRET", NoneV)>>,
        <<"slack_slash_command_prefix", Getenv("SLACK_SLASH_COMMAND_PREFIX", StrV("/"))>>,
        <<"enable_webex", Getenv("ENABLE_WEBEX", BoolV(FALSE))>>,
        <<"webex_token", Getenv("WEBEX_TOKEN", NoneV)>>,
        <<"webex_signing_secret", Getenv("WEBEX_SIGNING_SECRET", NoneV)>>,
        <<"enable_mattermost", Getenv("ENABLE_MATTERMOST", BoolV(FALSE))>>,
        <<"mattermost_api_token", Getenv("MATTERMOST_API_TOKEN", NoneV)>>,
        <<"mattermost_url", Getenv("MATTERMOST_URL", NoneV)>>,
        <<"enable_ms_teams", Getenv("ENABLE_MS_TEAMS", BoolV(FALSE))>>,
        <<"microsoft_app_id", Getenv("MICROSOFT_APP_ID", NoneV)>>,
        <<"microsoft_app_password", Getenv("MICROSOFT_APP_PASSWORD", NoneV)>>
      >>)>>,
      <<"nautobot_plugin_chatops_panorama", Dict(<<
        <<"panorama_host", Getenv("PANORAMA_HOST", NoneV)>>,
        <<"panorama_user", Getenv("PANORAMA_USER", NoneV)>>,
        <<"panorama_password", Getenv("PANORAMA_PASSWORD", NoneV)>>
      >>)>>
    >>)

\* DEBUG_TOOLBAR_CONFIG["SHOW_TOOLBAR_CALLBACK"](request): `DEBUG and not TESTING`,
\* read from the module namespace when the callback is called.
SHOW_TOOLBAR_CALLBACK(ns) ==
    IF ~Truthy(ns["DEBUG"]) THEN ns["DEBUG"] ELSE BoolV(~Truthy(ns["TESTING"]))

DebugToolbarApp == "debug_toolbar"
DebugToolbarMiddleware == "debug_toolbar.middleware.DebugToolbarMiddleware"

\* x in list
Contains(list, x) == \E i \in 1..Len(list) : list[i] = x

\* if DJANGO_TOOLBAR_ENABLED and "debug_toolbar" not in EXTRA_INSTALLED_APPS:
\*     EXTRA_INSTALLED_APPS.append("debug_toolbar")
ToolbarApp(enabled, apps) ==
    IF Truthy(enabled) /\ ~Contains(apps, DebugToolbarApp)
    THEN Append(apps, DebugToolbarApp)
    ELSE apps

\* A variant of ToolbarMiddleware that does not look at the toggle.
ToolbarMiddleware_untoggled(enabled, middleware) ==
    IF ~Contains(middleware, DebugToolbarMiddleware)
    THEN <<DebugToolbarMiddleware>> \o middleware
    ELSE middleware

\* A variant of ToolbarMiddleware that does not look for the element in the list.
ToolbarMiddleware_unchecked(enabled, middleware) ==
    IF Truthy(enabled)
    THEN <<DebugToolbarMiddleware>> \o middleware
    ELSE middleware

\* if DJANGO_TOOLBAR_ENABLED and "...DebugToolbarMiddleware" not in MIDDLEWARE:
\*     MIDDLEWARE.insert(0, "debug_toolbar.middleware.DebugToolbarMiddleware")
ToolbarMiddleware(enabled, middleware) ==
    IF Truthy(enabled) /\ ~Contains(middleware, DebugToolbarMiddleware)
    THEN <<DebugToolbarMiddleware>> \o middleware
    ELSE middleware

\* name = expression
Assign(line, name, expr) == [line |-> line, kind |-> "assign", name |-> name, expr |-> expr]
\* any other statement
Stmt(line, kind) == [line |-> line, kind |-> kind]

\* The statements after the required-variable loop, in the order of the file.
Program ==
    << Stmt(27, "TESTING"),
       Assign(33, "ALLOWED_HOSTS", SplitOf("NAUTOBOT_ALLOWED_HOSTS", StrV(""))),
       Assign(35, "DATABASES", DATABASES),
       Stmt(51, "MysqlOptions"),
       Assign(55, "CELERY_QUEUES", CELERY_QUEUES),
       Assign(74, "CACHES", CACHES),
       Assign(88, "CACHEOPS_REDIS", CACHEOPS_REDIS),
       Assign(92, "CELERY_BROKER_URL", CELERY_BROKER_URL),
       Assign(96, "CELERY_RESULT_BACKEND", CELERY_RESULT_BACKEND),
       Assign(102, "SECRET_KEY", Getenv("NAUTOBOT_SECRET_KEY", NoneV)),
       Assign(113, "ADMINS", Lit(<<>>)),
       Assign(118, "ALLOWED_URL_SCHEMES", Lit(ALLOWED_URL_SCHEMES)),
       Assign(137, "BANNER_TOP", Getenv("NAUTOBOT_BANNER_TOP", StrV(""))),
       Assign(138, "BANNER_BOTTOM", Getenv("NAUTOBOT_BANNER_BOTTOM", StrV(""))),
       Assign(141, "BANNER_LOGIN", Getenv("NAUTOBOT_BANNER_LOGIN", StrV(""))),
       Assign(144, "CACHEOPS_DEFAULTS",
              Dict(<< <<"timeout", IntOf("NAUTOBOT_CACHEOPS_TIMEOUT", IntV(900))>> >>)),
       Assign(147, "CACHEOPS_ENABLED", CACHEOPS_ENABLED),
       Assign(150, "CHANGELOG_RETENTION", IntOf("NAUTOBOT_CHANGELOG_RETENTION", IntV(90))),
       Assign(156, "CORS_ALLOW_ALL_ORIGINS",
              TruthyOf("NAUTOBOT_CORS_ALLOW_ALL_ORIGINS", BoolV(FALSE))),
       Assign(159, "CORS_ALLOWED_ORIGINS", Lit(<<>>)),
       Assign(165, "CORS_ALLOWED_ORIGIN_REGEXES", Lit(<<>>)),
       Assign(173, "CSRF_TRUSTED_ORIGINS", Lit(<<>>)),
       Assign(178, "DEBUG", TruthyOf("NAUTOBOT_DEBUG", BoolV(FALSE))),
       Assign(183, "ENFORCE_GLOBAL_UNIQUE",
              TruthyOf("NAUTOBOT_ENFORCE_GLOBAL_UNIQUE", BoolV(FALSE))),
       Assign(187, "EXEMPT_VIEW_PERMISSIONS", Lit(<<>>)),
       Assign(194, "EXTERNAL_AUTH_DEFAULT_GROUPS", Lit(<<>>)),
       Assign(195, "EXTERNAL_AUTH_DEFAULT_PERMISSIONS", Lit(<<>>)),
       Assign(198, "FORCE_SCRIPT_NAME", Lit(NoneV)),
       Assign(201, "HIDE_RESTRICTED_UI", TruthyOf("NAUTOBOT_HIDE_RESTRICTED_UI", BoolV(FALSE))),
       Assign(211, "INTERNAL_IPS", Lit(<<"127.0.0.1", "::1">>)),
       Stmt(215, "LOG_LEVEL"),
       Assign(216, "LOGGING", LOGGING),
       Assign(250, "MAINTENANCE_MODE", TruthyOf("NAUTOBOT_MAINTENANCE_MODE", BoolV(FALSE))),
       Assign(255, "MAX_PAGE_SIZE", IntOf("NAUTOBOT_MAX_PAGE_SIZE", IntV(1000))),
       Assign(272, "METRICS_ENABLED", TruthyOf("NAUTOBOT_METRICS_ENABLED", BoolV(FALSE))),
       Assign(275, "NAPALM_USERNAME", Getenv("NAUTOBOT_NAPALM_USERNAME", StrV(""))),
       Assign(276, "NAPALM_PASSWORD", Getenv("NAUTOBOT_NAPALM_PASSWORD", StrV(""))),
       Assign(279, "NAPALM_TIMEOUT", IntOf("NAUTOBOT_NAPALM_TIMEOUT", IntV(30))),
       Assign(283, "NAPALM_ARGS", Lit(<<>>)),
       Assign(286, "PAGINATE_COUNT", IntOf("NAUTOBOT_PAGINATE_COUNT", IntV(50))),
       Assign(289, "PLUGINS", Lit(<<"nautobot_chatops", "nautobot_plugin_chatops_panorama">>)),
       Assign(293, "PLUGINS_CONFIG", PLUGINS_CONFIG),
       Assign(318, "PREFER_IPV4", TruthyOf("NAUTOBOT_PREFER_IPV4", BoolV(FALSE))),
       Assign(321, "RACK_ELEVATION_DEFAULT_UNIT_HEIGHT",
              IntOf("NAUTOBOT_RACK_ELEVATION_DEFAULT_UNIT_HEIGHT", IntV(22))),
       Assign(322, "RACK_ELEVATION_DEFAULT_UNIT_WIDTH",
              IntOf("NAUTOBOT_RACK_ELEVATION_DEFAULT_UNIT_WIDTH", IntV(220))),
       Assign(325, "REMOTE_AUTH_ENABLED", Lit(BoolV(FALSE))),
       Assign(326, "REMOTE_AUTH_BACKEND",
              Lit(StrV("nautobot.core.authentication.RemoteUserBackend"))),
       Assign(327, "REMOTE_AUTH_HEADER", Lit(StrV("HTTP_REMOTE_USER"))),
       Assign(328, "REMOTE_AUTH_AUTO_CREATE_USER", Lit(BoolV(TRUE))),
       Assign(329, "REMOTE_AUTH_DEFAULT_GROUPS", Lit(<<>>)),
       Assign(330, "REMOTE_AUTH_DEFAULT_PERMISSIONS", Lit(<<>>)),
       Assign(333, "RELEASE_CHECK_TIMEOUT",
              IntOf("NAUTOBOT_RELEASE_CHECK_TIMEOUT", IntV(24 * 3600))),
       Assign(337, "RELEASE_CHECK_URL", Getenv("NAUTOBOT_RELEASE_CHECK_URL", NoneV)),
       Assign(342, "SESSION_COOKIE_AGE", IntOf("NAUTOBOT_SESSION_COOKIE_AGE", IntV(1209600))),
       Assign(347, "SESSION_FILE_PATH", Getenv("NAUTOBOT_SESSION_FILE_PATH", NoneV)),
       Assign(350, "SOCIAL_AUTH_ENABLED", Lit(BoolV(FALSE))),
       Assign(353, "SOCIAL_AUTH_POSTGRES_JSONFIELD", Lit(BoolV(FALSE))),
       Assign(356, "TIME_ZONE", Getenv("NAUTOBOT_TIME_ZONE", StrV("UTC"))),
       Assign(360, "DATE_FORMAT", Getenv("NAUTOBOT_DATE_FORMAT", StrV("N j, Y"))),
       Assign(361, "SHORT_DATE_FORMAT", Getenv("NAUTOBOT_SHORT_DATE_FORMAT", StrV("Y-m-d"))),
       Assign(362, "TIME_FORMAT", Getenv("NAUTOBOT_TIME_FORMAT", StrV("g:i a"))),
       Assign(363, "SHORT_TIME_FORMAT", Getenv("NAUTOBOT_SHORT_TIME_FORMAT", StrV("H:i:s"))),
       Assign(364, "DATETIME_FORMAT", Getenv("NAUTOBOT_DATETIME_FORMAT", StrV("N j, Y g:i a"))),
       Assign(365, "SHORT_DATETIME_FORMAT",
              Getenv("NAUTOBOT_SHORT_DATETIME_FORMAT", StrV("Y-m-d H:i"))),
       Assign(369, "EXTRA_INSTALLED_APPS", Lit(<<>>)),
       Assign(372, "DJANGO_TOOLBAR_ENABLED",
              TruthyOf("NAUTOBOT_DJANGO_TOOLBAR_ENABLED", BoolV(FALSE))),
       Stmt(373, "TESTING"),
       Assign(374, "DEBUG_TOOLBAR_CONFIG",
              Dict(<< <<"SHOW_TOOLBAR_CALLBACK",
                        Lit([type |-> "function", body |-> "DEBUG and not TESTING"])>> >>)),
       Stmt(376, "ToolbarApp"),
       Stmt(378, "ToolbarMiddleware") >>

\* name = r, unless the right-hand side raised (and then nothing is bound).
Bind(name, r, ns, mw) ==
    IF r.exc # "none" THEN [exc |-> r.exc, ns |-> ns, mw |-> mw]
    ELSE [exc |-> "none", ns |-> (name :> r.val) @@ ns, mw |-> mw]

\* One statement: the namespace and the inherited MIDDLEWARE list after it, or
\* the exception it raises.
Step(s, env, av, ns, mw) ==
    CASE s.kind = "assign" -> Bind(s.name, Eval(s.expr, env, ns), ns, mw)
      [] s.kind = "TESTING" -> Bind("TESTING", Ok(TESTING(av)), ns, mw)
      [] s.kind = "LOG_LEVEL" -> Bind("LOG_LEVEL", Ok(LOG_LEVEL(ns)), ns, mw)
      [] s.kind = "MysqlOptions" ->
            Bind("DATABASES", Ok(MysqlOptions(ns["DATABASES"])), ns, mw)
      [] s.kind = "ToolbarApp" ->
            Bind("EXTRA_INSTALLED_APPS",
                 Ok(ToolbarApp(ns["DJANGO_TOOLBAR_ENABLED"], ns["EXTRA_INSTALLED_APPS"])),
                 ns, mw)
      [] s.kind = "ToolbarMiddleware" ->
            [exc |-> "none",
             ns |-> ns,
             mw |-> ToolbarMiddleware(ns["DJANGO_TOOLBAR_ENABLED"], mw)]

RECURSIVE Run(_, _, _, _, _)

\* The execution continues after a statement that left r, or stops at its exception.
Continue(i, env, av, r) ==
    IF r.exc # "none" THEN [exc |-> r.exc, key |-> "", ns |-> r.ns, mw |-> r.mw]
    ELSE Run(i, env, av, r.ns, r.mw)

\* The statements from the i-th on.
Run(i, env, av, ns, mw) ==
    IF i > Len(Program) THEN [exc |-> "none", key |-> "", ns |-> ns, mw |-> mw]
    ELSE Continue(i + 1, env, av, Step(Program[i], env, av, ns, mw))

\* raise ImproperlyConfigured(f"Required environment variable {key} is missing.")
\* for the key the loop stopped at, or the rest of the file.
AfterRequired(key, env, av, mw) ==
    IF key # ""
    THEN [exc |-> "ImproperlyConfigured", key |-> key, ns |-> <<>>, mw |-> mw]
    ELSE Run(1, env, av, <<>>, mw)

\* One execution of the file: the required-variable loop, then the statements.
\* ns collects the names the execution has bound.
Exec(env, av, mw) == AfterRequired(RequiredLoop(env, 1), env, av, mw)

(***************************************************************************)
(* The inputs: process environments, argument vectors, inherited lists.    *)
(***************************************************************************)
Range(seq) == {seq[i] : i \in 1..Len(seq)}

\* os.environ[key] = value
EnvPut(env, key, value) == (key :> value) @@ env
\* del os.environ[key]
EnvDel(env, key) == [k \in DOMAIN env \ {key} |-> env[k]]

\* Every use of an environment variable in expression e, with the path of the
\* setting it defines.
RECURSIVE Uses(_, _)
Uses(e, path) ==
    CASE e.op \in {"getenv", "int", "is_truthy", "split", "getenv_redis"} ->
            {[var |-> e.var, op |-> e.op, path |-> path, expr |-> e]}
      [] e.op = "dict" ->
            UNION {Uses(e.fields[i][2], Append(path, e.fields[i][1])) : i \in 1..Len(e.fields)}
      [] OTHER -> {}

\* The environment-backed settings of the file.
EnvBacked ==
    UNION {Uses(Program[i].expr, <<Program[i].name>>) :
             i \in {j \in 1..Len(Program) : Program[j].kind = "assign"}}

\* The variables parse_redis_connection reads besides the required ones.
RedisVars == {"NAUTOBOT_REDIS_SSL", "NAUTOBOT_REDIS_PORT", "NAUTOBOT_REDIS_USERNAME"}

EnvVars == {u.var : u \in EnvBacked} \cup RedisVars \cup Range(RequiredKeys)

IntVars == {u.var : u \in {x \in EnvBacked : x.op = "int"}} \cup {"NAUTOBOT_REDIS_PORT"}
BoolVars == {u.var : u \in {x \in EnvBacked : x.op = "is_truthy"}} \cup {"NAUTOBOT_REDIS_SSL"}
\* The chat-backend flags of PLUGINS_CONFIG["nautobot_chatops"].
ChatFlags == {"ENABLE_SLACK", "ENABLE_WEBEX", "ENABLE_MATTERMOST", "ENABLE_MS_TEAMS"}

IntSpellings == {"", "abc", "60", "-5", " 7", "1_0"}
BoolSpellings == {"true", "True", "1", "false", "0", "", "maybe", "on", "No"}

\* The values the model gives a variable when it sets it.
Values(key) ==
    CASE key \in IntVars -> IntSpellings
      [] key \in BoolVars -> BoolSpellings
      [] key \in ChatFlags -> {"true", "false", "0", ""}
      [] key = "NAUTOBOT_ALLOWED_HOSTS" -> {"", "nautobot", "a.io b.io"}
      [] key = "NAUTOBOT_DB_ENGINE" ->
            {"django.db.backends.mysql", "django.db.backends.postgresql", "mysql"}
      [] key \in Range(RequiredKeys) -> {"", "nautobot", "redis"}
      [] OTHER -> {"", "custom"}

\* All six required variables set, nothing else.
Baseline == [k \in Range(RequiredKeys) |-> "nautobot"]

\* Every way of leaving required variables unset, empty or set.
RequiredEnvs == UNION {[S -> {"", "nautobot"}] : S \in SUBSET Range(RequiredKeys)}

\* Every (variable, value) the model may set.
Settable == UNION {{<<k, v>> : v \in Values(k)} : k \in EnvVars}

\* The environments reached from those of E by setting one variable.
Override(E) == {EnvPut(p[1], p[2][1], p[2][2]) : p \in E \X Settable}

\* The environments a process is started in: the required variables in every
\* combination, and one variable set on top of a complete and of an incomplete
\* set of required variables.
Envs ==
    RequiredEnvs \cup Override({Baseline, EnvDel(Baseline, "NAUTOBOT_SECRET_KEY")})

Argvs ==
    {<<>>,
     <<"nautobot-server">>,
     <<"nautobot-server", "test">>,
     <<"nautobot-server", "runserver", "test">>,
     <<"test", "runserver">>}

SessionMiddleware == "django.contrib.sessions.middleware.SessionMiddleware"
CommonMiddleware == "django.middleware.common.CommonMiddleware"

\* nautobot.core.settings.MIDDLEWARE as a process first imports it: no debug toolbar.
InheritedLists == {<<>>, <<SessionMiddleware, CommonMiddleware>>}

\* Inherited lists that something else has already put the debug toolbar in.
PreparedLists ==
    {<<DebugToolbarMiddleware>>,
     <<DebugToolbarMiddleware, SessionMiddleware>>,
     <<SessionMiddleware, DebugToolbarMiddleware>>,
     <<SessionMiddleware, DebugToolbarMiddleware, CommonMiddleware>>}

(***************************************************************************)
(* The state machine.                                                      *)
(***************************************************************************)
Init ==
    /\ environ \in Envs
    /\ argv \in Argvs
    /\ MIDDLEWARE \in InheritedLists
    /\ settings = <<>>
    /\ outcome = "none"
    /\ errorKey = ""
    /\ loads = 0

\* What an execution r of the file leaves behind.
Finish(r) ==
    /\ settings' = r.ns
    /\ MIDDLEWARE' = r.mw
    /\ outcome' = IF r.exc = "none" THEN "ok" ELSE r.exc
    /\ errorKey' = r.key

\* The file is executed (imported, or imported again by the same process).
Load ==
    /\ loads < MaxLoads
    /\ Finish(Exec(environ, argv, MIDDLEWARE))
    /\ loads' = loads + 1
    /\ UNCHANGED <<environ, argv>>

Next == Load

Spec == Init /\ [][Next]_vars

\* A process that changes the debug-toolbar toggle between two loads.
ToolbarVar == "NAUTOBOT_DJANGO_TOOLBAR_ENABLED"

InitReload ==
    /\ environ \in {Baseline} \cup {EnvPut(Baseline, ToolbarVar, v) : v \in Values(ToolbarVar)}
    /\ argv \in {<<"nautobot-server">>, <<"nautobot-server", "test">>}
    /\ MIDDLEWARE \in InheritedLists \cup PreparedLists
    /\ settings = <<>>
    /\ outcome = "none"
    /\ errorKey = ""
    /\ loads = 0

Setenv ==
    /\ \E v \in Values(ToolbarVar) : environ' = EnvPut(environ, ToolbarVar, v)
    /\ UNCHANGED <<argv, MIDDLEWARE, settings, outcome, errorKey, loads>>

Unsetenv ==
    /\ ToolbarVar \in DOMAIN environ
    /\ environ' = EnvDel(environ, ToolbarVar)
    /\ UNCHANGED <<argv, MIDDLEWARE, settings, outcome, errorKey, loads>>

NextReload == Load \/ Setenv \/ Unsetenv

SpecReload == InitReload /\ [][NextReload]_vars

(***************************************************************************)
(* Properties of a load.                                                   *)
(***************************************************************************)
\* Occurrences of x in list.
Count(list, x) == Cardinality({i \in 1..Len(list) : list[i] = x})
\* x is the first element of list.
FirstIs(list, x) == list # <<>> /\ list[1] = x
\* The value at a path of keys of a nested dict.
RECURSIVE At(_, _)
At(v, path) == IF path = <<>> THEN v ELSE At(v[Head(path)], Tail(path))

\* The last load of the process ran to the end of the file.
Loaded == loads > 0 /\ outcome = "ok"
UnsetOrEmpty(key) == key \notin DOMAIN environ \/ environ[key] = ""
\* All six required variables hold a non-empty value.
RequiredSet == \A k \in Range(RequiredKeys) : ~UnsetOrEmpty(k)
\* Nothing but the required variables and var is set.
OnlyOptional(var) == RequiredSet /\ DOMAIN environ \subseteq Range(RequiredKeys) \cup {var}

\* C1: the required variables are checked in the order NAUTOBOT_ALLOWED_HOSTS,
\* NAUTOBOT_DB_USER, NAUTOBOT_DB_PASSWORD, NAUTOBOT_REDIS_HOST,
\* NAUTOBOT_REDIS_PASSWORD, NAUTOBOT_SECRET_KEY: when at least one is unset or
\* empty the load fails with ImproperlyConfigured naming the first such variable
\* of that order, and no setting of the file has been assigned (nor has the
\* inherited MIDDLEWARE list been touched).
C1_FirstMissingRequired ==
    LET order == <<"NAUTOBOT_ALLOWED_HOSTS", "NAUTOBOT_DB_USER", "NAUTOBOT_DB_PASSWORD",
                   "NAUTOBOT_REDIS_HOST", "NAUTOBOT_REDIS_PASSWORD", "NAUTOBOT_SECRET_KEY">>
    IN  \A i \in 1..6 :
            (/\ loads > 0
             /\ UnsetOrEmpty(order[i])
             /\ \A j \in 1..(i - 1) : ~UnsetOrEmpty(order[j]))
            => /\ outcome = "ImproperlyConfigured"
               /\ errorKey = order[i]
               /\ DOMAIN settings = {}
               /\ ~Contains(MIDDLEWARE, DebugToolbarMiddleware)

\* Two required variables are missing (one empty, one unset) and the error names
\* the earlier one.
C1_Witness ==
    /\ loads > 0
    /\ outcome = "ImproperlyConfigured"
    /\ errorKey = "NAUTOBOT_DB_PASSWORD"
    /\ "NAUTOBOT_DB_PASSWORD" \in DOMAIN environ
    /\ "NAUTOBOT_SECRET_KEY" \notin DOMAIN environ
    /\ DOMAIN settings = {}

\* The spellings int() accepts, and those strtobool() accepts, among the values
\* the model gives a variable.
IntegerLiterals == {"60", "-5", " 7", "1_0", "0", "1", "6380"}
BooleanWords ==
    {"true", "True", "1", "false", "False", "0", "on", "No",
     "y", "yes", "t", "n", "no", "f", "off"}
\* Variable key holds a value its coercion rejects.
Malformed(key) ==
    \/ key \in IntVars /\ environ[key] \notin IntegerLiterals
    \/ key \in BoolVars /\ environ[key] \notin BooleanWords

\* C2, as stated: with all six required variables non-empty the load completes
\* without error whatever the optional variables hold.
C2_AlwaysLoads == (loads > 0 /\ RequiredSet) => outcome = "ok"

\* C2: with all six required variables non-empty the load completes without
\* error provided every variable passed to int() is unset or an integer literal
\* and every variable passed to is_truthy() is unset or a word strtobool knows;
\* otherwise it raises ValueError.
C2_LoadsUnlessMalformed ==
    (loads > 0 /\ RequiredSet) =>
        outcome = IF \E k \in DOMAIN environ : Malformed(k) THEN "ValueError" ELSE "ok"

\* A non-numeric NAUTOBOT_DB_TIMEOUT stops the load at DATABASES.
C2_Witness ==
    /\ loads > 0
    /\ RequiredSet
    /\ "NAUTOBOT_DB_TIMEOUT" \in DOMAIN environ
    /\ environ["NAUTOBOT_DB_TIMEOUT"] = "abc"
    /\ outcome = "ValueError"
    /\ "ALLOWED_HOSTS" \in DOMAIN settings
    /\ "DATABASES" \notin DOMAIN settings

\* C3, as stated: after a load the debug-toolbar middleware is the first element
\* of MIDDLEWARE iff DJANGO_TOOLBAR_ENABLED is true for that load, and it never
\* occurs more than once.
C3_FirstIffEnabled ==
    Loaded =>
        /\ FirstIs(MIDDLEWARE, DebugToolbarMiddleware)
               <=> settings["DJANGO_TOOLBAR_ENABLED"].val
        /\ Count(MIDDLEWARE, DebugToolbarMiddleware) <= 1

\* C3: after a load the debug-toolbar middleware is the first element of
\* MIDDLEWARE iff it was the first element before the load, or
\* DJANGO_TOOLBAR_ENABLED is true for that load and the list did not contain the
\* element before it; the load adds one occurrence in the second case and leaves
\* the number of occurrences as it was in every other case.
C3_FirstIffInsertedOrKept ==
    [][(loads' = loads + 1 /\ outcome' = "ok") =>
          /\ FirstIs(MIDDLEWARE', DebugToolbarMiddleware)
                 <=> \/ FirstIs(MIDDLEWARE, DebugToolbarMiddleware)
                     \/ /\ settings'["DJANGO_TOOLBAR_ENABLED"].val
                        /\ ~Contains(MIDDLEWARE, DebugToolbarMiddleware)
          /\ Count(MIDDLEWARE', DebugToolbarMiddleware) =
                 IF /\ settings'["DJANGO_TOOLBAR_ENABLED"].val
                    /\ ~Contains(MIDDLEWARE, DebugToolbarMiddleware)
                 THEN 1
                 ELSE Count(MIDDLEWARE, DebugToolbarMiddleware)]_vars

\* A load with the toggle off, after an earlier load put the element in front of
\* the two inherited elements.
C3_Witness ==
    /\ loads >= 2
    /\ outcome = "ok"
    /\ ~settings["DJANGO_TOOLBAR_ENABLED"].val
    /\ MIDDLEWARE = <<DebugToolbarMiddleware, SessionMiddleware, CommonMiddleware>>

\* C4: every load with NAUTOBOT_DJANGO_TOOLBAR_ENABLED truthy leaves
\* "debug_toolbar" exactly once in EXTRA_INSTALLED_APPS and the debug-toolbar
\* middleware exactly once in MIDDLEWARE, at index 0; the second and later loads
\* leave the settings and the list as the load before left them.
C4_ToolbarIdempotent ==
    [][(loads' = loads + 1 /\ outcome' = "ok" /\ settings'["DJANGO_TOOLBAR_ENABLED"].val) =>
          /\ Count(settings'["EXTRA_INSTALLED_APPS"], DebugToolbarApp) = 1
          /\ Count(MIDDLEWARE', DebugToolbarMiddleware) = 1
          /\ MIDDLEWARE'[1] = DebugToolbarMiddleware
          /\ loads >= 1 => (settings' = settings /\ MIDDLEWARE' = MIDDLEWARE)]_vars

\* The last of several loads with the toggle on.
C4_Witness ==
    /\ loads = MaxLoads
    /\ outcome = "ok"
    /\ settings["DJANGO_TOOLBAR_ENABLED"].val
    /\ settings["EXTRA_INSTALLED_APPS"] = <<DebugToolbarApp>>
    /\ MIDDLEWARE = <<DebugToolbarMiddleware, SessionMiddleware, CommonMiddleware>>

\* The settings read through is_truthy(os.getenv(NAME, default)).
Toggles == {u \in EnvBacked : u.op = "is_truthy"}

\* C5, as stated: for every toggle, "true", "True" and "1" yield True, "false",
\* "0" and "" yield False, and an unset variable yields the default (True for
\* CACHEOPS_ENABLED, False for the others).
C5_EmptyIsFalse ==
    \A u \in Toggles :
        (/\ loads > 0
         /\ OnlyOptional(u.var)
         /\ u.var \in DOMAIN environ => environ[u.var] \in {"true", "True", "1", "false", "0", ""})
        => /\ outcome = "ok"
           /\ settings[u.path[1]] =
                  BoolV(IF u.var \in DOMAIN environ
                        THEN environ[u.var] \in {"true", "True", "1"}
                        ELSE u.path[1] = "CACHEOPS_ENABLED")

\* C5: for every toggle, "true", "True" and "1" yield True, "false" and "0" yield
\* False, an unset variable yields the default (True for CACHEOPS_ENABLED, False
\* for the others), and the empty string raises ValueError at the toggle's
\* assignment, which leaves the setting unassigned.
C5_EmptyRaises ==
    \A u \in Toggles :
        (loads > 0 /\ OnlyOptional(u.var)) =>
            IF u.var \notin DOMAIN environ
            THEN outcome = "ok" /\ settings[u.path[1]] = BoolV(u.path[1] = "CACHEOPS_ENABLED")
            ELSE IF environ[u.var] \in {"true", "True", "1"}
            THEN outcome = "ok" /\ settings[u.path[1]] = BoolV(TRUE)
            ELSE IF environ[u.var] \in {"false", "0"}
            THEN outcome = "ok" /\ settings[u.path[1]] = BoolV(FALSE)
            ELSE environ[u.var] = "" =>
                     outcome = "ValueError" /\ u.path[1] \notin DOMAIN settings

\* NAUTOBOT_DEBUG is set to the empty string and the load stops at DEBUG.
C5_Witness ==
    /\ loads > 0
    /\ OnlyOptional("NAUTOBOT_DEBUG")
    /\ "NAUTOBOT_DEBUG" \in DOMAIN environ
    /\ environ["NAUTOBOT_DEBUG"] = ""
    /\ outcome = "ValueError"
    /\ "CSRF_TRUSTED_ORIGINS" \in DOMAIN settings
    /\ "DEBUG" \notin DOMAIN settings

\* Scheme, credentials, host and port of a connection descriptor.
Endpoint(descriptor) ==
    <<descriptor.url.scheme, descriptor.url.creds, descriptor.url.host, descriptor.url.port>>
\* None of the three descriptors is overridden.
DescriptorsUnset ==
    DOMAIN environ \cap {"NAUTOBOT_CACHEOPS_REDIS", "NAUTOBOT_CELERY_BROKER_URL",
                         "NAUTOBOT_CELERY_RESULT_BACKEND"} = {}
SameEndpoint ==
    /\ Endpoint(settings["CACHEOPS_REDIS"]) = Endpoint(settings["CACHES"]["default"]["LOCATION"])
    /\ Endpoint(settings["CELERY_BROKER_URL"]) = Endpoint(settings["CACHES"]["default"]["LOCATION"])
    /\ Endpoint(settings["CELERY_RESULT_BACKEND"]) = Endpoint(settings["CACHES"]["default"]["LOCATION"])

\* C6, as stated: with none of the three descriptors overridden, the primary
\* cache, the secondary cache and the broker / result backend have the same
\* endpoint and pairwise different database indices.
C6_PairwiseDifferent ==
    (Loaded /\ DescriptorsUnset) =>
        /\ SameEndpoint
        /\ settings["CELERY_RESULT_BACKEND"].url.database = settings["CELERY_BROKER_URL"].url.database
        /\ settings["CACHES"]["default"]["LOCATION"].url.database # settings["CACHEOPS_REDIS"].url.database
        /\ settings["CACHEOPS_REDIS"].url.database # settings["CELERY_BROKER_URL"].url.database
        /\ settings["CACHES"]["default"]["LOCATION"].url.database # settings["CELERY_BROKER_URL"].url.database

\* C6: with none of the three descriptors overridden, the four descriptors have
\* the same endpoint; the primary cache, the broker and the result backend all
\* use database 0, and only the secondary cache (CACHEOPS_REDIS) uses another
\* one, database 1.
C6_OnlyCacheopsApart ==
    (Loaded /\ DescriptorsUnset) =>
        /\ SameEndpoint
        /\ settings["CACHES"]["default"]["LOCATION"].url.database = 0
        /\ settings["CELERY_BROKER_URL"].url.database = 0
        /\ settings["CELERY_RESULT_BACKEND"].url.database = 0
        /\ settings["CACHEOPS_REDIS"].url.database = 1

\* The descriptors of a load on a port of its own.
C6_Witness ==
    /\ Loaded
    /\ DescriptorsUnset
    /\ "NAUTOBOT_REDIS_PORT" \in DOMAIN environ
    /\ settings["CACHEOPS_REDIS"].url.port = 60
    /\ settings["CACHEOPS_REDIS"].url.host = "nautobot"
    /\ settings["CELERY_BROKER_URL"].url.database = 0

\* The optional environment-backed settings.
Optional == {u \in EnvBacked : u.var \notin Range(RequiredKeys)}

\* The coercion C7 gives setting u: boolean for the chat-backend flags, else the
\* one of the file.
Coercion(u) == IF u.var \in ChatFlags THEN "is_truthy" ELSE u.op
Coerced(kind, V) ==
    CASE kind = "int" -> int(StrV(V))
      [] kind = "is_truthy" -> is_truthy(StrV(V))
      [] OTHER -> Ok(StrV(V))
\* The value of a setting whose variable is unset.
Default(u) ==
    IF u.op = "getenv_redis" THEN parse_redis_connection(environ, u.expr.database).val
    ELSE u.expr.default
EqualsCoerced(v, c) == c.exc = "none" /\ v = c.val

\* C7: after a load, every optional environment-backed setting equals the
\* coercion of V for its type when its variable is set to V (string passthrough,
\* integer parse, boolean parse: False for "false" and "0" also for the
\* chat-backend flags ENABLE_SLACK, ENABLE_WEBEX, ENABLE_MATTERMOST and
\* ENABLE_MS_TEAMS), and its static default when the variable is unset.
C7_CoercionOfValue ==
    \A u \in Optional :
        Loaded =>
            IF u.var \notin DOMAIN environ THEN At(settings, u.path) = Default(u)
            ELSE IF u.var \in ChatFlags
            THEN Truthy(At(settings, u.path)) = (environ[u.var] \in {"true", "True", "1"})
            ELSE EqualsCoerced(At(settings, u.path), Coerced(Coercion(u), environ[u.var]))

\* C8: after a successful load LOG_LEVEL is "DEBUG" if DEBUG is true and "INFO"
\* otherwise, the nautobot and rq.worker loggers have level LOG_LEVEL, the
\* django logger has level "INFO" and the normal_console handler level "DEBUG".
C8_LogLevels ==
    Loaded =>
        /\ settings["LOG_LEVEL"] = StrV(IF settings["DEBUG"].val THEN "DEBUG" ELSE "INFO")
        /\ settings["LOGGING"]["loggers"]["nautobot"]["level"] = settings["LOG_LEVEL"]
        /\ settings["LOGGING"]["loggers"]["rq.worker"]["level"] = settings["LOG_LEVEL"]
        /\ settings["LOGGING"]["loggers"]["django"]["level"] = StrV("INFO")
        /\ settings["LOGGING"]["handlers"]["normal_console"]["level"] = StrV("DEBUG")

\* A load in debug mode.
C8_Witness ==
    /\ Loaded
    /\ settings["DEBUG"].val
    /\ settings["LOGGING"]["loggers"]["nautobot"]["level"] = StrV("DEBUG")
    /\ settings["LOGGING"]["loggers"]["django"]["level"] = StrV("INFO")

\* C9: after a successful load TESTING is true iff sys.argv has more than one
\* element and sys.argv[1] is "test", and SHOW_TOOLBAR_CALLBACK returns a true
\* value iff DEBUG is true and TESTING is false.
C9_TestingAndCallback ==
    Loaded =>
        /\ settings["TESTING"] = BoolV(Len(argv) >= 2 /\ argv[2] = "test")
        /\ Len(argv) <= 1 => settings["TESTING"] = BoolV(FALSE)
        /\ Truthy(SHOW_TOOLBAR_CALLBACK(settings))
               <=> (settings["DEBUG"].val /\ ~settings["TESTING"].val)

\* A load in debug mode under the test runner: the callback hides the toolbar.
C9_Witness ==
    /\ Loaded
    /\ argv = <<"nautobot-server", "test">>
    /\ settings["TESTING"].val
    /\ settings["DEBUG"].val
    /\ ~Truthy(SHOW_TOOLBAR_CALLBACK(settings))

\* C10: after a successful load DATABASES["default"] has an "OPTIONS" entry iff
\* its "ENGINE" is "django.db.backends.mysql", the entry is {"charset":
\* "utf8mb4"}, and with NAUTOBOT_DB_ENGINE unset the engine is
\* "django.db.backends.postgresql" and there is no "OPTIONS" entry.
C10_MysqlOptions ==
    Loaded =>
        /\ "OPTIONS" \in DOMAIN settings["DATABASES"]["default"]
               <=> settings["DATABASES"]["default"]["ENGINE"] = StrV("django.db.backends.mysql")
        /\ "OPTIONS" \in DOMAIN settings["DATABASES"]["default"] =>
               /\ DOMAIN settings["DATABASES"]["default"]["OPTIONS"] = {"charset"}
               /\ settings["DATABASES"]["default"]["OPTIONS"]["charset"] = StrV("utf8mb4")
        /\ "NAUTOBOT_DB_ENGINE" \notin DOMAIN environ =>
               /\ settings["DATABASES"]["default"]["ENGINE"] = StrV("django.db.backends.postgresql")
               /\ "OPTIONS" \notin DOMAIN settings["DATABASES"]["default"]

\* A load with the MySQL engine.
C10_Witness ==
    /\ Loaded
    /\ "NAUTOBOT_DB_ENGINE" \in DOMAIN environ
    /\ environ["NAUTOBOT_DB_ENGINE"] = "django.db.backends.mysql"
    /\ "OPTIONS" \in DOMAIN settings["DATABASES"]["default"]
====
